---- MODULE Spec2Model ----
(***************************************************************************)
(* The image canvas of src/src/App.tsx: the list of Image records held in  *)
(* the `images` state, the pan offset held in the spring (panX, panY), the *)
(* two z-index refs, the system clipboard, and the decodes that are in     *)
(* flight between a drop or paste event and its onload callback.           *)
(*                                                                         *)
(* Every event handler is one action.  A handler that queues several       *)
(* setImages updaters is one action that applies the updaters in the order *)
(* they were queued, each to the result of the one before it.              *)
(*                                                                         *)
(* A file is modelled by the dimensions it decodes to, <<w, h>>; <<0, 0>>  *)
(* is a file that is not an image.  A text (an image source, a clipboard   *)
(* content) is <<tag, w, h>>.  A scale is an exact fraction <<num, den>>   *)
(* in lowest terms.                                                        *)
(***************************************************************************)
EXTENDS Integers, Sequences, FiniteSets, TLC

VARIABLES
    images,      \* useState<Image[]>: the sequence of Image records
    panX, panY,  \* useSpring: the pan offset
    maxZIndex,   \* useRef(1)
    minZIndex,   \* useRef(-1)
    clipboard,   \* the text/plain content of the system clipboard
    inflight,    \* the reads and decodes whose onload has not fired yet
    nextId,      \* the number of ids uuidv4 has handed out, plus one
    addedZ,      \* history: the zIndex given to each appended image, in order
    backZ,       \* history: the zIndex given by each moveToBack, in order
    size,        \* useState of each mounted ImageComponent: its <<width, height>>
    memo,        \* the memo of the resize gesture in progress
    last,        \* history: the handler that ran last and what it was given
    steps        \* history: the number of handlers that have run

vars == <<images, panX, panY, maxZIndex, minZIndex, clipboard, inflight,
          nextId, addedZ, backZ, size, memo, last, steps>>

----------------------------------------------------------------------------
(* Bounds of the model *)

\* the number of images appended over the whole run
MaxAdds == 2

\* the number of handlers run over the whole run
MaxSteps == 8

\* the cap on the displayed size of a new image
ScaleCap == 600

\* image files a user drops: their decoded width and height
ImageFiles == {<<1200, 800>>, <<400, 300>>}

\* a dropped file that is not an image
BadFile == <<0, 0>>

\* the lists of accepted files a drop event delivers
DropLists == {<<f>> : f \in ImageFiles \cup {BadFile}}
                 \cup {<<<<400, 300>>, <<1200, 800>>>>}

\* the offsets the panning gesture reports
PanOffsets == {<<-1, 2>>, <<3, -2>>}

\* the offsets the image drag gesture reports
DragOffsets == {<<5, 6>>}

\* the smallest width and height the resize gesture reports
MinSize == 50

\* the pointer movements the resize gesture reports, from the start of the
\* gesture
ResizeMovements == {<<-200, -150>>, <<-1000, -700>>}

\* no resize gesture has reported yet
NoMemo == [id |-> 0, width |-> 0, height |-> 0]

\* the keys of a keydown event
Keys == {"Backspace", "Delete", "a"}

\* text put on the clipboard by another application
ExternalTexts == {<<"text", 0, 0>>}

\* the empty clipboard
NoText == <<"", 0, 0>>

\* the ids a handler can be called with
IdSpace == 1..MaxAdds

----------------------------------------------------------------------------
(* Helpers *)

RECURSIVE GCD(_, _)
GCD(a, b) == IF b = 0 THEN a ELSE GCD(b, a % b)

\* the quotient n / d of two positive numbers, in lowest terms
Frac(n, d) == <<n \div GCD(n, d), d \div GCD(n, d)>>

Abs(n) == IF n < 0 THEN 0 - n ELSE n

Ids(imgs) == {imgs[i].id : i \in DOMAIN imgs}

Max(a, b) == IF a >= b THEN a ELSE b

\* n * scale for a scale <<num, den>>; the sizes of the model are whole
Scaled(n, scale) == (n * scale[1]) \div scale[2]

\* the component state of the images that stay mounted
Mounted(sizes, imgs) == [id \in Ids(imgs) |-> sizes[id]]

\* the gesture state of the resize handle, lost with its component
MemoOf(m, imgs) == IF m.id \in Ids(imgs) THEN m ELSE NoMemo

\* reader.result: the data URL of a file
DataURL(file) == <<"data", file[1], file[2]>>

\* whether the browser decodes a source to an image (img.onload fires)
Decodes(src) == src[2] > 0 /\ src[3] > 0

\* img.width and img.height of a decoded source
ImgWidth(src) == src[2]
ImgHeight(src) == src[3]

SelectedIds(imgs) == {imgs[i].id : i \in {j \in DOMAIN imgs : imgs[j].selected}}

AnyDragging(imgs) == \E i \in DOMAIN imgs : imgs[i].dragging

\* the record with the given id (ids are unique)
ImageOf(imgs, id) == imgs[CHOOSE i \in DOMAIN imgs : imgs[i].id = id]

\* filter with the test the wrong way round: the selected images are kept
RECURSIVE FilterSelected(_)
FilterSelected(imgs) ==
    IF imgs = <<>> THEN <<>>
    ELSE IF Head(imgs).selected THEN <<Head(imgs)>> \o FilterSelected(Tail(imgs))
         ELSE FilterSelected(Tail(imgs))

\* Array.prototype.filter
RECURSIVE FilterUnselected(_)
FilterUnselected(imgs) ==
    IF imgs = <<>> THEN <<>>
    ELSE IF Head(imgs).selected THEN FilterUnselected(Tail(imgs))
         ELSE <<Head(imgs)>> \o FilterUnselected(Tail(imgs))

\* one more handler runs: which one, on which id, with which argument, what
\* was selected before it ran, and whether it repeats the handler before it
Ran(op, id, arg) ==
    /\ steps < MaxSteps
    /\ steps' = steps + 1
    /\ last' = [op |-> op, id |-> id, arg |-> arg,
                sel |-> SelectedIds(images),
                rep |-> (last.op = op /\ last.id = id)]

----------------------------------------------------------------------------
(* Initial state: App() mounted, nothing dropped yet *)

Init ==
    /\ images = <<>>
    /\ panX = 0
    /\ panY = 0
    /\ maxZIndex = 1
    /\ minZIndex = -1
    /\ clipboard = NoText
    /\ inflight = {}
    /\ nextId = 1
    /\ addedZ = <<>>
    /\ backZ = <<>>
    /\ size = Mounted(<<>>, <<>>)
    /\ memo = NoMemo
    /\ last = [op |-> "init", id |-> 0, arg |-> <<0, 0>>, sel |-> {}, rep |-> FALSE]
    /\ steps = 0

----------------------------------------------------------------------------
(* Stacking order *)

\* the updater moveToFront passes to setImages
moveToFrontImages(prevImages, id) ==
    [i \in DOMAIN prevImages |->
        IF prevImages[i].id = id
        THEN [prevImages[i] EXCEPT !.zIndex = maxZIndex]
        ELSE prevImages[i]]

\* moveToFront with maxZIndex.current read but not incremented
moveToFrontNoIncrement(id) ==
    /\ images' = moveToFrontImages(images, id)
    /\ Ran("moveToFront", id, <<0, 0>>)
    /\ UNCHANGED <<panX, panY, maxZIndex, minZIndex, clipboard, inflight,
                   nextId, addedZ, backZ,
                   size, memo>>

\* moveToFront with the increment outside the test on the id
moveToFrontAlwaysIncrements(id) ==
    /\ images' = moveToFrontImages(images, id)
    /\ maxZIndex' = maxZIndex + 1
    /\ Ran("moveToFront", id, <<0, 0>>)
    /\ UNCHANGED <<panX, panY, minZIndex, clipboard, inflight, nextId, addedZ, backZ,
                   size, memo>>

\* the click handler of the first button of a selected image
moveToFront(id) ==
    /\ images' = moveToFrontImages(images, id)
    /\ maxZIndex' = IF id \in Ids(images) THEN maxZIndex + 1 ELSE maxZIndex
    /\ Ran("moveToFront", id, <<0, 0>>)
    /\ UNCHANGED <<panX, panY, minZIndex, clipboard, inflight, nextId, addedZ, backZ,
                   size, memo>>

\* a moveToBack updater that starts one above the bottom counter
moveToBackImagesFromZero(prevImages, id) ==
    [i \in DOMAIN prevImages |->
        IF prevImages[i].id = id
        THEN [prevImages[i] EXCEPT !.zIndex = minZIndex + 1]
        ELSE prevImages[i]]

\* the updater moveToBack passes to setImages
moveToBackImages(prevImages, id) ==
    [i \in DOMAIN prevImages |->
        IF prevImages[i].id = id
        THEN [prevImages[i] EXCEPT !.zIndex = minZIndex]
        ELSE prevImages[i]]

\* moveToBack with minZIndex.current incremented instead of decremented
moveToBackIncrements(id) ==
    /\ images' = moveToBackImages(images, id)
    /\ minZIndex' = IF id \in Ids(images) THEN minZIndex + 1 ELSE minZIndex
    /\ backZ' = IF id \in Ids(images) THEN Append(backZ, minZIndex) ELSE backZ
    /\ Ran("moveToBack", id, <<0, 0>>)
    /\ UNCHANGED <<panX, panY, maxZIndex, clipboard, inflight, nextId, addedZ,
                   size, memo>>

\* the click handler of the second button of a selected image
moveToBack(id) ==
    /\ images' = moveToBackImages(images, id)
    /\ minZIndex' = IF id \in Ids(images) THEN minZIndex - 1 ELSE minZIndex
    /\ backZ' = IF id \in Ids(images) THEN Append(backZ, minZIndex) ELSE backZ
    /\ Ran("moveToBack", id, <<0, 0>>)
    /\ UNCHANGED <<panX, panY, maxZIndex, clipboard, inflight, nextId, addedZ,
                   size, memo>>

----------------------------------------------------------------------------
(* Selection *)

\* an updater that clears no selected flag
unselectNone(prevImages) == prevImages

\* the updater that clears every selected flag
unselectAll(prevImages) ==
    [i \in DOMAIN prevImages |-> [prevImages[i] EXCEPT !.selected = FALSE]]

\* the second updater of handleImageSelect
toggleSelected(prevImages, id) ==
    [i \in DOMAIN prevImages |->
        IF prevImages[i].id = id
        THEN [prevImages[i] EXCEPT !.selected = ~prevImages[i].selected]
        ELSE prevImages[i]]

\* handleImageSelect with the second updater only
handleImageSelectToggleOnly(prevImages, id) ==
    toggleSelected(prevImages, id)

\* handleImageSelect queues two updaters; the second runs on the result of
\* the first
handleImageSelect(prevImages, id) ==
    toggleSelected(unselectAll(prevImages), id)

\* the side button that clears the selection
unselectAllImages ==
    /\ images' = unselectAll(images)
    /\ Ran("unselectAllImages", 0, <<0, 0>>)
    /\ UNCHANGED <<panX, panY, maxZIndex, minZIndex, clipboard, inflight,
                   nextId, addedZ, backZ,
                   size, memo>>

\* a click on an image: handleImageClick calls onSelect
handleImageClick(id) ==
    /\ images' = handleImageSelect(images, id)
    /\ Ran("handleImageClick", id, <<0, 0>>)
    /\ UNCHANGED <<panX, panY, maxZIndex, minZIndex, clipboard, inflight,
                   nextId, addedZ, backZ,
                   size, memo>>

----------------------------------------------------------------------------
(* Deleting *)

\* deleteAllImages that also starts the top counter again
deleteAllImagesResetsCounter ==
    /\ images' = <<>>
    /\ maxZIndex' = 1
    /\ Ran("deleteAllImages", 0, <<0, 0>>)
    /\ UNCHANGED <<panX, panY, minZIndex, clipboard, inflight, nextId, addedZ,
                   backZ>>
    /\ size' = Mounted(size, <<>>)
    /\ memo' = MemoOf(memo, <<>>)

\* the side button that empties the canvas
deleteAllImages ==
    /\ images' = <<>>
    /\ Ran("deleteAllImages", 0, <<0, 0>>)
    /\ UNCHANGED <<panX, panY, maxZIndex, minZIndex, clipboard, inflight,
                   nextId, addedZ, backZ>>
    /\ size' = Mounted(size, <<>>)
    /\ memo' = MemoOf(memo, <<>>)

\* the keydown listener
handleKeyDown(key) ==
    /\ images' = IF key = "Backspace" \/ key = "Delete"
                 THEN FilterUnselected(images)
                 ELSE images
    /\ Ran("handleKeyDown", 0, <<key>>)
    /\ UNCHANGED <<panX, panY, maxZIndex, minZIndex, clipboard, inflight,
                   nextId, addedZ, backZ>>
    /\ size' = Mounted(size, images')
    /\ memo' = MemoOf(memo, images')

----------------------------------------------------------------------------
(* Dragging an image, resizing an image, panning the canvas *)

\* the updater handleImageDrag passes to setImages
handleImageDrag(prevImages, id, x, y) ==
    [i \in DOMAIN prevImages |->
        IF prevImages[i].id = id
        THEN [prevImages[i] EXCEPT !.x = x, !.y = y, !.dragging = TRUE]
        ELSE prevImages[i]]

\* an updater for the end of a drag that leaves the flag as it is
handleImageDragEndKeepsFlag(prevImages, id) == prevImages

\* an updater for the end of a drag that clears the flag of every image
handleImageDragEndAll(prevImages, id) ==
    [i \in DOMAIN prevImages |-> [prevImages[i] EXCEPT !.dragging = FALSE]]

\* the updater handleImageDragEnd passes to setImages
handleImageDragEnd(prevImages, id) ==
    [i \in DOMAIN prevImages |->
        IF prevImages[i].id = id
        THEN [prevImages[i] EXCEPT !.dragging = FALSE]
        ELSE prevImages[i]]

\* onDrag with onSelect() working on the images from before onImageDrag(x, y)
ImageOnDragLosesDrag(id, x, y) ==
    /\ images' = handleImageSelect(images, id)
    /\ Ran("ImageOnDrag", id, <<x, y>>)
    /\ UNCHANGED <<panX, panY, maxZIndex, minZIndex, clipboard, inflight,
                   nextId, addedZ, backZ,
                   size, memo>>

\* onDrag of the image gesture: onImageDrag(x, y), then onSelect()
ImageOnDrag(id, x, y) ==
    /\ images' = handleImageSelect(handleImageDrag(images, id, x, y), id)
    /\ Ran("ImageOnDrag", id, <<x, y>>)
    /\ UNCHANGED <<panX, panY, maxZIndex, minZIndex, clipboard, inflight,
                   nextId, addedZ, backZ,
                   size, memo>>

\* onDragEnd of the image gesture
ImageOnDragEnd(id) ==
    /\ images' = handleImageDragEnd(images, id)
    /\ Ran("ImageOnDragEnd", id, <<0, 0>>)
    /\ UNCHANGED <<panX, panY, maxZIndex, minZIndex, clipboard, inflight,
                   nextId, addedZ, backZ,
                   size, memo>>

\* a resize updater that takes the scale from the change of the width
handleImageResizeScaleFromChange(prevImages, id, newWidth, newHeight) ==
    [i \in DOMAIN prevImages |->
        IF prevImages[i].id = id
        THEN [prevImages[i] EXCEPT !.width = newWidth, !.height = newHeight,
                                   !.scale = <<newWidth - prevImages[i].width,
                                               prevImages[i].width>>]
        ELSE prevImages[i]]

\* the updater handleImageResize passes to setImages
handleImageResize(prevImages, id, newWidth, newHeight) ==
    [i \in DOMAIN prevImages |->
        IF prevImages[i].id = id
        THEN [prevImages[i] EXCEPT !.width = newWidth, !.height = newHeight,
                                   !.scale = Frac(newWidth, prevImages[i].width)]
        ELSE prevImages[i]]

\* the onResize prop: the resize gesture reports a new size
onResize(id, newWidth, newHeight) ==
    /\ images' = handleImageResize(images, id, newWidth, newHeight)
    /\ Ran("onResize", id, <<newWidth, newHeight>>)
    /\ UNCHANGED <<panX, panY, maxZIndex, minZIndex, clipboard, inflight,
                   nextId, addedZ, backZ>>

\* the resize gesture without the floor on the new size
resizeBindOnDragNoFloor(id, first, mx, my) ==
    LET m == IF first
             THEN [id |-> id, width |-> size[id][1], height |-> size[id][2]]
             ELSE memo
        newWidth == m.width + mx
        newHeight == m.height + my
    IN  /\ id \in SelectedIds(images)
        /\ first \/ memo.id = id
        /\ memo' = m
        /\ size' = [size EXCEPT ![id] = <<newWidth, newHeight>>]
        /\ onResize(id, newWidth, newHeight)

\* onDrag of the resize gesture, on the handle that a selected image shows:
\* the first event of a gesture takes the component's size as memo, every
\* event reports memo + movement, not below MinSize
resizeBindOnDrag(id, first, mx, my) ==
    LET m == IF first
             THEN [id |-> id, width |-> size[id][1], height |-> size[id][2]]
             ELSE memo
        newWidth == Max(MinSize, m.width + mx)
        newHeight == Max(MinSize, m.height + my)
    IN  /\ id \in SelectedIds(images)
        /\ first \/ memo.id = id
        /\ memo' = m
        /\ size' = [size EXCEPT ![id] = <<newWidth, newHeight>>]
        /\ onResize(id, newWidth, newHeight)

\* onDrag of the panning gesture without the test for a dragged image
PanOnDragNoTest(dx, dy) ==
    /\ panX' = dx /\ panY' = dy
    /\ Ran("PanOnDrag", 0, <<dx, dy>>)
    /\ UNCHANGED <<images, maxZIndex, minZIndex, clipboard, inflight, nextId,
                   addedZ, backZ,
                   size, memo>>

\* onDrag of the panning gesture
PanOnDrag(dx, dy) ==
    /\ IF AnyDragging(images)
       THEN UNCHANGED <<panX, panY>>
       ELSE panX' = dx /\ panY' = dy
    /\ Ran("PanOnDrag", 0, <<dx, dy>>)
    /\ UNCHANGED <<images, maxZIndex, minZIndex, clipboard, inflight, nextId,
                   addedZ, backZ,
                   size, memo>>

----------------------------------------------------------------------------
(* Adding an image: drop, copy and paste *)

\* the placement with Math.abs on both branches
initialCoordAbs(pan) == Abs(pan)

\* the placement of a new image on one axis, from the pan offset on that axis
initialCoord(pan) ==
    IF pan < 0 THEN 0 + Abs(pan)
    ELSE IF pan > 0 THEN 0 - pan
    ELSE 0

\* the scale of a new image: two tests in sequence, the second overwrites
initialScale(width, height) ==
    LET afterWidth == IF width > ScaleCap THEN Frac(ScaleCap, width) ELSE <<1, 1>>
    IN  IF height > ScaleCap THEN Frac(ScaleCap, height) ELSE afterWidth

\* the initial state of the ImageComponent mounted for a new image
initialSize(image) ==
    <<Scaled(image.width, image.scale), Scaled(image.height, image.scale)>>

\* the appended record with a zIndex taken from the length of the list
newImageZFromLength(src) ==
    [id       |-> nextId,
     src      |-> src,
     x        |-> initialCoord(panX),
     y        |-> initialCoord(panY),
     width    |-> ImgWidth(src),
     height   |-> ImgHeight(src),
     dragging |-> FALSE,
     selected |-> FALSE,
     zIndex   |-> Len(images) + 1,
     scale    |-> initialScale(ImgWidth(src), ImgHeight(src))]

\* the record both onload callbacks append
newImage(src) ==
    [id       |-> nextId,
     src      |-> src,
     x        |-> initialCoord(panX),
     y        |-> initialCoord(panY),
     width    |-> ImgWidth(src),
     height   |-> ImgHeight(src),
     dragging |-> FALSE,
     selected |-> FALSE,
     zIndex   |-> maxZIndex,
     scale    |-> initialScale(ImgWidth(src), ImgHeight(src))]

\* a drop event that hands every accepted file to a FileReader
onDropEveryFile(acceptedFiles) ==
    LET entries == {[kind |-> "drop", stage |-> "read", data |-> acceptedFiles[i]] :
                       i \in DOMAIN acceptedFiles}
    IN  /\ nextId + Cardinality(inflight) <= MaxAdds
        /\ entries \cap inflight = {}
        /\ inflight' = inflight \cup entries
        /\ Ran("onDrop", 0, acceptedFiles)
        /\ UNCHANGED <<images, panX, panY, maxZIndex, minZIndex, clipboard,
                       nextId, addedZ, backZ,
                   size, memo>>

\* a drop event: the first accepted file is handed to a FileReader
onDrop(acceptedFiles) ==
    LET entry == [kind |-> "drop", stage |-> "read", data |-> acceptedFiles[1]]
    IN  /\ nextId + Cardinality(inflight) <= MaxAdds
        /\ entry \notin inflight
        /\ inflight' = inflight \cup {entry}
        /\ Ran("onDrop", 0, acceptedFiles)
        /\ UNCHANGED <<images, panX, panY, maxZIndex, minZIndex, clipboard,
                       nextId, addedZ, backZ,
                   size, memo>>

\* reader.onload: the data URL is given to a new Image element; two decodes
\* of the same source are not in flight at the same time
readerOnload(entry) ==
    /\ entry.kind = "drop" /\ entry.stage = "read"
    /\ [kind |-> "drop", stage |-> "decode", data |-> DataURL(entry.data)] \notin inflight
    /\ inflight' = (inflight \ {entry})
           \cup {[kind |-> "drop", stage |-> "decode", data |-> DataURL(entry.data)]}
    /\ Ran("readerOnload", 0, <<0, 0>>)
    /\ UNCHANGED <<images, panX, panY, maxZIndex, minZIndex, clipboard,
                   nextId, addedZ, backZ,
                   size, memo>>

\* img.onload of a dropped file: the image is appended
dropImgOnload(entry) ==
    /\ entry.kind = "drop" /\ entry.stage = "decode"
    /\ Decodes(entry.data)
    /\ images' = Append(images, newImage(entry.data))
    /\ maxZIndex' = maxZIndex + 1
    /\ nextId' = nextId + 1
    /\ addedZ' = Append(addedZ, maxZIndex)
    /\ inflight' = inflight \ {entry}
    /\ Ran("dropImgOnload", nextId, <<0, 0>>)
    /\ UNCHANGED <<panX, panY, minZIndex, clipboard, backZ>>
    /\ size' = [id \in Ids(images') |->
                  IF id = nextId THEN initialSize(newImage(entry.data)) ELSE size[id]]
    /\ UNCHANGED memo

\* a copy listener that takes the first image, selected or not
handleCopyFirstImage ==
    /\ clipboard' = IF images # <<>> THEN images[1].src ELSE clipboard
    /\ Ran("handleCopy", 0, <<0, 0>>)
    /\ UNCHANGED <<images, panX, panY, maxZIndex, minZIndex, inflight, nextId,
                   addedZ, backZ,
                   size, memo>>

\* the copy listener: the source of the first selected image
handleCopy ==
    /\ clipboard' = IF SelectedIds(images) # {}
                    THEN images[CHOOSE i \in DOMAIN images :
                                   /\ images[i].selected
                                   /\ \A j \in 1..(i - 1) : ~images[j].selected].src
                    ELSE clipboard
    /\ Ran("handleCopy", 0, <<0, 0>>)
    /\ UNCHANGED <<images, panX, panY, maxZIndex, minZIndex, inflight, nextId,
                   addedZ, backZ,
                   size, memo>>

\* another application puts text on the clipboard
externalCopy(text) ==
    /\ clipboard' = text
    /\ Ran("externalCopy", 0, <<0, 0>>)
    /\ UNCHANGED <<images, panX, panY, maxZIndex, minZIndex, inflight, nextId,
                   addedZ, backZ,
                   size, memo>>

\* the paste listener: a non-empty text is handed to loadImage
handlePaste ==
    LET entry == [kind |-> "paste", stage |-> "load", data |-> clipboard]
    IN  /\ nextId + Cardinality(inflight) <= MaxAdds
        /\ entry \notin inflight
        /\ inflight' = IF clipboard # NoText THEN inflight \cup {entry} ELSE inflight
        /\ Ran("handlePaste", 0, <<0, 0>>)
        /\ UNCHANGED <<images, panX, panY, maxZIndex, minZIndex, clipboard,
                       nextId, addedZ, backZ,
                   size, memo>>

\* img.onload inside loadImage: the promise resolves and
\* addImageFromClipboard gives the source to a second Image element
loadImageOnload(entry) ==
    /\ entry.kind = "paste" /\ entry.stage = "load"
    /\ Decodes(entry.data)
    /\ [kind |-> "paste", stage |-> "decode", data |-> entry.data] \notin inflight
    /\ inflight' = (inflight \ {entry})
           \cup {[kind |-> "paste", stage |-> "decode", data |-> entry.data]}
    /\ Ran("loadImageOnload", 0, <<0, 0>>)
    /\ UNCHANGED <<images, panX, panY, maxZIndex, minZIndex, clipboard,
                   nextId, addedZ, backZ,
                   size, memo>>

\* img.onload of addImageFromClipboard: the image is appended
clipboardImgOnload(entry) ==
    /\ entry.kind = "paste" /\ entry.stage = "decode"
    /\ Decodes(entry.data)
    /\ images' = Append(images, newImage(entry.data))
    /\ maxZIndex' = maxZIndex + 1
    /\ nextId' = nextId + 1
    /\ addedZ' = Append(addedZ, maxZIndex)
    /\ inflight' = inflight \ {entry}
    /\ Ran("clipboardImgOnload", nextId, <<0, 0>>)
    /\ UNCHANGED <<panX, panY, minZIndex, clipboard, backZ>>
    /\ size' = [id \in Ids(images') |->
                  IF id = nextId THEN initialSize(newImage(entry.data)) ELSE size[id]]
    /\ UNCHANGED memo

\* a failed decode that takes a value from the top counter
decodeFailsConsumesZ(entry) ==
    /\ \/ entry.kind = "drop" /\ entry.stage = "decode"
       \/ entry.kind = "paste"
    /\ ~Decodes(entry.data)
    /\ inflight' = inflight \ {entry}
    /\ maxZIndex' = maxZIndex + 1
    /\ Ran("decodeFails", 0, <<0, 0>>)
    /\ UNCHANGED <<images, panX, panY, minZIndex, clipboard,
                   nextId, addedZ, backZ,
                   size, memo>>

\* a source that does not decode: no onload fires, no handler is registered
\* for the error, the element is dropped
decodeFails(entry) ==
    /\ \/ entry.kind = "drop" /\ entry.stage = "decode"
       \/ entry.kind = "paste"
    /\ ~Decodes(entry.data)
    /\ inflight' = inflight \ {entry}
    /\ Ran("decodeFails", 0, <<0, 0>>)
    /\ UNCHANGED <<images, panX, panY, maxZIndex, minZIndex, clipboard,
                   nextId, addedZ, backZ,
                   size, memo>>

----------------------------------------------------------------------------
(* The canvas: every handler, with every input *)

Next ==
    \/ \E id \in IdSpace : moveToFront(id)
    \/ \E id \in IdSpace : moveToBack(id)
    \/ unselectAllImages
    \/ \E id \in IdSpace : handleImageClick(id)
    \/ deleteAllImages
    \/ \E key \in Keys : handleKeyDown(key)
    \/ \E id \in IdSpace : \E p \in DragOffsets : ImageOnDrag(id, p[1], p[2])
    \/ \E id \in IdSpace : ImageOnDragEnd(id)
    \/ \E id \in IdSpace : \E first \in BOOLEAN : \E mv \in ResizeMovements :
          resizeBindOnDrag(id, first, mv[1], mv[2])
    \/ \E p \in PanOffsets : PanOnDrag(p[1], p[2])
    \/ \E files \in DropLists : onDrop(files)
    \/ \E entry \in inflight : readerOnload(entry)
    \/ \E entry \in inflight : dropImgOnload(entry)
    \/ handleCopy
    \/ \E text \in ExternalTexts : externalCopy(text)
    \/ handlePaste
    \/ \E entry \in inflight : loadImageOnload(entry)
    \/ \E entry \in inflight : clipboardImgOnload(entry)
    \/ \E entry \in inflight : decodeFails(entry)

Spec == Init /\ [][Next]_vars

----------------------------------------------------------------------------
(* The canvas as rendered: a handler that is wired to an element runs only *)
(* while that element is on the page                                       *)

\* an ImageComponent is rendered for every image of the list
RenderedImage(id) == id \in Ids(images)

\* controls rendered for every image of the list
RenderedControlsEveryImage(id) == id \in Ids(images)

\* the two buttons and the border are rendered for the images that are
\* selected
RenderedControls(id) == id \in SelectedIds(images)

NextUI ==
    \/ \E id \in IdSpace : RenderedControls(id) /\ moveToFront(id)
    \/ \E id \in IdSpace : RenderedControls(id) /\ moveToBack(id)
    \/ unselectAllImages
    \/ \E id \in IdSpace : RenderedImage(id) /\ handleImageClick(id)
    \/ deleteAllImages
    \/ \E key \in Keys : handleKeyDown(key)
    \/ \E id \in IdSpace : \E p \in DragOffsets :
          RenderedImage(id) /\ ImageOnDrag(id, p[1], p[2])
    \/ \E id \in IdSpace : RenderedImage(id) /\ ImageOnDragEnd(id)
    \/ \E id \in IdSpace : \E first \in BOOLEAN : \E mv \in ResizeMovements :
          resizeBindOnDrag(id, first, mv[1], mv[2])
    \/ \E p \in PanOffsets : PanOnDrag(p[1], p[2])
    \/ \E files \in DropLists : onDrop(files)
    \/ \E entry \in inflight : readerOnload(entry)
    \/ \E entry \in inflight : dropImgOnload(entry)
    \/ handleCopy
    \/ \E text \in ExternalTexts : externalCopy(text)
    \/ handlePaste
    \/ \E entry \in inflight : loadImageOnload(entry)
    \/ \E entry \in inflight : clipboardImgOnload(entry)
    \/ \E entry \in inflight : decodeFails(entry)

SpecUI == Init /\ [][NextUI]_vars

----------------------------------------------------------------------------
(* Properties *)

\* a <= b for two fractions with positive denominators
FracLeq(a, b) == a[1] * b[2] <= b[1] * a[2]

FracMin(a, b) == IF FracLeq(a, b) THEN a ELSE b

\* the handlers that are addressed by an image id
IdHandlers == {"moveToFront", "moveToBack", "handleImageClick", "ImageOnDrag",
               "ImageOnDragEnd", "onResize"}

\* the handlers that append an image
AppendHandlers == {"dropImgOnload", "clipboardImgOnload"}

\* C1: a click on an image that is selected leaves that image unselected
\* (so two clicks in a row on one image end with it unselected).
C1_SelectTogglesOff ==
    (last.op = "handleImageClick" /\ last.id \in last.sel)
        => last.id \notin SelectedIds(images)

\* C2: the scale of a newly appended image of width w and height h is
\* min(1, 600/w, 600/h), and neither w*scale nor h*scale exceeds 600, on the
\* drop path and on the paste path.
C2_InitialScaleIsMin ==
    last.op \in AppendHandlers =>
        LET img == images[Len(images)]
            w == ImgWidth(img.src)
            h == ImgHeight(img.src)
        IN  /\ img.scale = FracMin(<<1, 1>>, FracMin(Frac(ScaleCap, w), Frac(ScaleCap, h)))
            /\ w * img.scale[1] <= ScaleCap * img.scale[2]
            /\ h * img.scale[1] <= ScaleCap * img.scale[2]

\* C3: after resize(id, w, h) on an image of the canvas, the scale of the
\* image is w divided by the width the image was loaded with, after any
\* number of earlier resizes.
C3_ResizeScaleFromNaturalWidth ==
    (last.op = "onResize" /\ last.id \in Ids(images)) =>
        LET img == ImageOf(images, last.id)
        IN  img.scale = Frac(last.arg[1], ImgWidth(img.src))

\* C4: a handler addressed by an id that is not in the canvas changes no
\* image record, no selected flag, not the pan offset and no z counter.
C4_AbsentIdChangesNothing ==
    [][(last'.op \in IdHandlers /\ last'.id \notin Ids(images))
          => UNCHANGED <<images, panX, panY, maxZIndex, minZIndex>>]_vars

\* C5: in every reachable state at most one image is selected.
C5_AtMostOneSelected ==
    Cardinality(SelectedIds(images)) <= 1

\* the selection has moved from one image to another one of two
C5_Witness ==
    /\ Len(images) >= 2
    /\ last.op = "handleImageClick"
    /\ Cardinality(last.sel) = 1
    /\ Cardinality(SelectedIds(images)) = 1
    /\ last.sel # SelectedIds(images)

\* C6: a click on an image of the canvas that is not selected ends with
\* that image selected and every other image unselected.
C6_SelectIsExclusive ==
    (last.op = "handleImageClick" /\ last.id \in Ids(images) /\ last.id \notin last.sel)
        => SelectedIds(images) = {last.id}

\* an unselected image was clicked while another image was selected
C6_Witness ==
    /\ last.op = "handleImageClick"
    /\ last.id \in Ids(images)
    /\ last.sel # {}
    /\ last.id \notin last.sel
    /\ SelectedIds(images) = {last.id}

\* C7: after moveToFront(id) on an image of the canvas, the zIndex of the
\* image is greater than it was and greater than the zIndex of every other
\* image; also when the same moveToFront is repeated.
C7_MoveToFrontIsOnTop ==
    [][(last'.op = "moveToFront" /\ last'.id \in Ids(images)) =>
          LET z == ImageOf(images', last'.id).zIndex
          IN  /\ z > ImageOf(images, last'.id).zIndex
              /\ \A i \in DOMAIN images' :
                    images'[i].id # last'.id => z > images'[i].zIndex]_vars

\* moveToFront was run twice in a row on one of two images
C7_Witness ==
    /\ last.op = "moveToFront"
    /\ last.rep
    /\ last.id \in Ids(images)
    /\ Len(images) >= 2

\* C8: the zIndex values given by successive moveToBack calls on images of
\* the canvas are strictly decreasing and start at -1, and after
\* moveToBack(id) the zIndex of the image is less than the zIndex of every
\* other image.
C8_MoveToBackIsAtBottom ==
    /\ \A k \in 1..Len(backZ) : \A m \in 1..Len(backZ) : k < m => backZ[k] > backZ[m]
    /\ Len(backZ) > 0 => backZ[1] = 0 - 1
    /\ (last.op = "moveToBack" /\ last.id \in Ids(images)) =>
          LET z == ImageOf(images, last.id).zIndex
          IN  /\ z = backZ[Len(backZ)]
              /\ \A i \in DOMAIN images :
                    images[i].id # last.id => z < images[i].zIndex

\* both of two images were moved to the back, one after the other
C8_Witness ==
    /\ last.op = "moveToBack"
    /\ last.id \in Ids(images)
    /\ Len(images) >= 2
    /\ Len(backZ) >= 2
    /\ \A i \in DOMAIN images : images[i].zIndex < 0

\* C9: the zIndex values given to appended images are strictly increasing
\* in the order of appending and start at 1; deleting images does not start
\* the counter again.
C9_AddedZIncreases ==
    /\ \A k \in 1..Len(addedZ) : \A m \in 1..Len(addedZ) : k < m => addedZ[k] < addedZ[m]
    /\ Len(addedZ) > 0 => addedZ[1] = 1
    /\ last.op \in AppendHandlers =>
          images[Len(images)].zIndex = addedZ[Len(addedZ)]

\* a second image was appended after the first one was deleted
C9_Witness ==
    /\ last.op \in AppendHandlers
    /\ Len(addedZ) = 2
    /\ Len(images) = 1
    /\ images[1].zIndex = addedZ[2]

\* C10: the panning gesture leaves the pan offset as it is while an image
\* has dragging = TRUE and sets it to the reported offset when no image has;
\* the end of a drag of an image leaves that image with dragging = FALSE.
C10_PanOnlyWhenNoDrag ==
    [][/\ last'.op = "PanOnDrag" =>
             IF AnyDragging(images)
             THEN UNCHANGED <<panX, panY>>
             ELSE <<panX', panY'>> = last'.arg
       /\ (last'.op = "ImageOnDragEnd" /\ last'.id \in Ids(images)) =>
             ~ImageOf(images', last'.id).dragging]_vars

\* the canvas was panned after a drag of an image had ended
C10_Witness ==
    /\ last.op = "PanOnDrag"
    /\ <<panX, panY>> = last.arg
    /\ \E i \in DOMAIN images :
          /\ <<images[i].x, images[i].y>> \in DragOffsets
          /\ ~images[i].dragging

\* the keys that delete the selected images
DeleteKeys == {"Backspace", "Delete"}

\* the place of the image with the given id in the list
IndexOf(imgs, id) == CHOOSE i \in DOMAIN imgs : imgs[i].id = id

C12_LoadedSizeNeverChanges ==
    [][\A id \in Ids(images) \cap Ids(images') :
          /\ ImageOf(images', id).width = ImageOf(images, id).width
          /\ ImageOf(images', id).height = ImageOf(images, id).height]_vars

\* C13: a new image is placed at (-panX, -panY), for the pan offset at the
\* time it is appended, whatever the sign of the offset on each axis, and
\* it is neither selected nor dragging.
C13_NewImageAtViewportOrigin ==
    [][last'.op \in AppendHandlers =>
          /\ Len(images') = Len(images) + 1
          /\ images'[Len(images')].x = 0 - panX
          /\ images'[Len(images')].y = 0 - panY
          /\ ~images'[Len(images')].selected
          /\ ~images'[Len(images')].dragging]_vars

\* an image was appended while the canvas was panned right and up
C13_Witness ==
    /\ last.op \in AppendHandlers
    /\ panX > 0
    /\ panY < 0
    /\ images[Len(images)].x = 0 - panX
    /\ images[Len(images)].y = 0 - panY

\* C14: a dropped file or pasted text that does not decode to an image
\* appends nothing and leaves the images, both z counters, the id counter
\* and the pan offset exactly as before; the only images on the canvas are
\* decoded ones.
C14_FailedDecodeChangesNothing ==
    [][/\ last'.op = "decodeFails" =>
             /\ UNCHANGED <<images, maxZIndex, minZIndex, nextId, panX, panY>>
             /\ \E entry \in inflight :
                   /\ entry.stage # "read"
                   /\ ~Decodes(entry.data)
                   /\ inflight' = inflight \ {entry}
       /\ \A i \in DOMAIN images' : Decodes(images'[i].src)]_vars

\* a decode failed on a canvas that already holds an image
C14_Witness ==
    /\ last.op = "decodeFails"
    /\ Len(images) >= 1
    /\ maxZIndex > 1

\* C15: moveToFront(id) and moveToBack(id) with an id that is not on the
\* canvas change no image and leave both z counters as they were.
C15_MoveOfAbsentIdIsNoOp ==
    [][(last'.op \in {"moveToFront", "moveToBack"} /\ last'.id \notin Ids(images)) =>
          UNCHANGED <<images, maxZIndex, minZIndex>>]_vars

\* moveToFront was called with an absent id on a canvas that holds an image
C15_Witness ==
    /\ last.op = "moveToFront"
    /\ last.id \notin Ids(images)
    /\ Len(images) >= 1

\* C16: the dragging flag of an image becomes true only in the onDrag
\* handler of that image, is false after the onDragEnd handler of that
\* image, and is false on an image that has just been appended.
C16_DraggingOnlyDuringDrag ==
    [][/\ \A i \in DOMAIN images' :
             (/\ images'[i].dragging
              /\ \/ images'[i].id \notin Ids(images)
                 \/ ~ImageOf(images, images'[i].id).dragging)
             => (last'.op = "ImageOnDrag" /\ last'.id = images'[i].id)
       /\ last'.op = "ImageOnDragEnd" =>
             \A i \in DOMAIN images' :
                 images'[i].id = last'.id => ~images'[i].dragging]_vars

\* one of two images is being dragged, the other is not
C16_Witness ==
    /\ last.op = "ImageOnDrag"
    /\ Len(images) = 2
    /\ \E i, j \in DOMAIN images :
          /\ images[i].id = last.id
          /\ images[i].dragging
          /\ ~images[j].dragging

\* C17: a copy with an image selected puts that image's source on the
\* clipboard and a copy with none selected writes nothing; a paste hands the
\* clipboard text to the loader unchanged; when the pasted source has
\* decoded, exactly one image is appended with that source, a fresh id,
\* selected = false, the top counter's value as zIndex, and the placement
\* and scale of a drop, and every other image is unchanged.
C17_CopyPasteAppendsCopy ==
    [][/\ last'.op = "handleCopy" =>
             /\ \A i \in DOMAIN images :
                   images[i].selected => clipboard' = images[i].src
             /\ SelectedIds(images) = {} => clipboard' = clipboard
             /\ UNCHANGED <<images, maxZIndex, minZIndex, inflight>>
       /\ (last'.op = "handlePaste" /\ clipboard # NoText) =>
             /\ [kind |-> "paste", stage |-> "load", data |-> clipboard] \in inflight'
             /\ UNCHANGED images
       /\ last'.op = "loadImageOnload" =>
             \E entry \in inflight :
                 /\ entry.kind = "paste"
                 /\ inflight' = (inflight \ {entry})
                                   \cup {[entry EXCEPT !.stage = "decode"]}
       /\ last'.op = "clipboardImgOnload" =>
             \E entry \in inflight :
                 /\ entry.kind = "paste"
                 /\ inflight' = inflight \ {entry}
                 /\ Len(images') = Len(images) + 1
                 /\ SubSeq(images', 1, Len(images)) = images
                 /\ LET new == images'[Len(images')]
                    IN  /\ new.src = entry.data
                        /\ new.id \notin Ids(images)
                        /\ ~new.selected
                        /\ new.zIndex = maxZIndex
                        /\ new.x = 0 - panX
                        /\ new.y = 0 - panY
                        /\ new.width = ImgWidth(entry.data)
                        /\ new.height = ImgHeight(entry.data)
                        /\ new.scale = initialScale(new.width, new.height)]_vars

\* the selected image was copied and pasted: the canvas holds it and its copy
C17_Witness ==
    /\ last.op = "clipboardImgOnload"
    /\ Len(images) = 2
    /\ images[1].selected
    /\ clipboard = images[1].src
    /\ images[2].src = images[1].src
    /\ images[2].id # images[1].id

\* C18: after a drag-move of an image on the canvas to (x, y), that image
\* is at (x, y), is dragging and is selected, and no other image is
\* selected.
C18_DragMoveKeepsBothWrites ==
    (last.op = "ImageOnDrag" /\ last.id \in Ids(images)) =>
        /\ ImageOf(images, last.id).x = last.arg[1]
        /\ ImageOf(images, last.id).y = last.arg[2]
        /\ ImageOf(images, last.id).dragging
        /\ SelectedIds(images) = {last.id}

\* a second drag-move in a row of an image that was selected before it
C18_Witness ==
    /\ last.op = "ImageOnDrag"
    /\ last.rep
    /\ last.id \in last.sel
    /\ last.id \in Ids(images)
    /\ Len(images) = 2

\* C19: a completed decode, in whatever order the decodes complete and
\* whatever handlers ran in between, takes one entry out of flight and
\* appends one image at the end of the list, with an id and a zIndex that
\* no other image has, and keeps every record already on the canvas as the
\* handlers left it; ids and zIndex values are pairwise distinct throughout.
C19_AppendLosesNoUpdate ==
    [][/\ last'.op \in AppendHandlers =>
             /\ Len(images') = Len(images) + 1
             /\ SubSeq(images', 1, Len(images)) = images
             /\ images'[Len(images')].id \notin Ids(images)
             /\ \A i \in DOMAIN images :
                   images[i].zIndex # images'[Len(images')].zIndex
             /\ Cardinality(inflight') = Cardinality(inflight) - 1
       /\ \A i, j \in DOMAIN images' :
             i # j => /\ images'[i].id # images'[j].id
                      /\ images'[i].zIndex # images'[j].zIndex]_vars

\* a decode completed after the first image had been dragged, selected and
\* moved to the front
C19_Witness ==
    /\ last.op \in AppendHandlers
    /\ Len(images) = 2
    /\ images[1].dragging
    /\ images[1].selected
    /\ <<images[1].x, images[1].y>> \in DragOffsets
    /\ images[1].zIndex > 1
    /\ images[2].zIndex > images[1].zIndex

\* C20: every call of onResize made by the resize gesture passes a width
\* and a height of at least 50, also when the pointer has moved further
\* left or up than the size the gesture started with.
C20_ResizeFloor ==
    last.op = "onResize" =>
        /\ last.arg[1] >= MinSize
        /\ last.arg[2] >= MinSize

\* the pointer moved further than the starting size and the call was
\* made with the floor on both axes
C20_Witness ==
    /\ last.op = "onResize"
    /\ last.arg = <<MinSize, MinSize>>
    /\ last.id \in Ids(images)
    /\ size[last.id] = <<MinSize, MinSize>>

\* C21: in every reachable state the scale of every image is greater than
\* zero (numerator and denominator of the fraction are both positive).
C21_ScaleIsPositive ==
    \A i \in DOMAIN images :
        /\ images[i].scale[1] > 0
        /\ images[i].scale[2] > 0

\* an image that was loaded with a scale below 1 has been resized to the
\* floor twice in a row
C21_Witness ==
    /\ last.op = "onResize"
    /\ last.rep
    /\ last.arg = <<MinSize, MinSize>>
    /\ \E i \in DOMAIN images :
          /\ images[i].id = last.id
          /\ ImgWidth(images[i].src) > ScaleCap
          /\ images[i].scale = <<1, 1>>

\* C22: after resize(id, w, h) on an image of the canvas, the width the
\* image is displayed with, its stored width multiplied by its scale, is w.
C22_DisplayedWidthIsResizeWidth ==
    (last.op = "onResize" /\ last.id \in Ids(images)) =>
        LET img == ImageOf(images, last.id)
        IN  img.width * img.scale[1] = last.arg[1] * img.scale[2]

\* C23: after deleteAll the canvas stays empty until a later drop or paste
\* is issued; in particular the handler that runs right after deleteAll,
\* which cannot both issue and complete a decode, leaves the canvas empty.
C23_EmptyAfterDeleteAll ==
    [][last.op = "deleteAllImages" => images' = <<>>]_vars

\* C24: in every reachable state the images of the canvas have pairwise
\* distinct zIndex values and none of them has zIndex 0.
C24_ZIndexTotalOrder ==
    /\ \A i, j \in DOMAIN images :
          i # j => images[i].zIndex # images[j].zIndex
    /\ \A i \in DOMAIN images : images[i].zIndex # 0

\* two images, the first was moved to the back and then the second was
\* moved to the front
C24_Witness ==
    /\ last.op = "moveToFront"
    /\ Len(images) = 2
    /\ images[1].zIndex < 0
    /\ images[2].zIndex > 2
    /\ images[2].id = last.id

\* the handlers of C25 that queue one updater for one image
SingleImageHandlers == {"moveToFront", "moveToBack", "ImageOnDragEnd", "onResize"}

\* the list after has the images of the list before, in the same order,
\* and differs from it at most in the image id
OnlyImageChanged(before, after, id) ==
    /\ Len(after) = Len(before)
    /\ \A i \in DOMAIN before :
          /\ after[i].id = before[i].id
          /\ before[i].id # id => after[i] = before[i]

\* C25: moveToFront, moveToBack, the end of a drag and resize on an id of
\* the canvas change the addressed image only, and so does the drag updater
\* (the select that the drag handler queues after it changes selected flags
\* only); unselectAllImages changes selected flags only; none of them adds,
\* removes or reorders images or changes the pan offset.
C25_HandlersChangeTheirImageOnly ==
    [][/\ (last'.op \in SingleImageHandlers /\ last'.id \in Ids(images)) =>
             /\ OnlyImageChanged(images, images', last'.id)
             /\ UNCHANGED <<panX, panY>>
       /\ (last'.op = "ImageOnDrag" /\ last'.id \in Ids(images)) =>
             /\ OnlyImageChanged(images,
                    handleImageDrag(images, last'.id, last'.arg[1], last'.arg[2]),
                    last'.id)
             /\ OnlyImageChanged([i \in DOMAIN images |->
                                     [images[i] EXCEPT !.selected = FALSE]],
                                 images', last'.id)
             /\ UNCHANGED <<panX, panY>>
       /\ last'.op = "unselectAllImages" =>
             /\ images' = [i \in DOMAIN images |->
                              [images[i] EXCEPT !.selected = FALSE]]
             /\ UNCHANGED <<panX, panY>>]_vars

\* the drag of one of two images ended while the other one was being
\* dragged
C25_Witness ==
    /\ last.op = "ImageOnDragEnd"
    /\ Len(images) = 2
    /\ \E i, j \in DOMAIN images :
          /\ images[i].id = last.id
          /\ ~images[i].dragging
          /\ images[j].dragging
          /\ images[j].selected

\* the handlers wired to the controls of a selected image
SelectedImageHandlers == {"moveToFront", "moveToBack", "onResize"}

\* C26: on the rendered canvas moveToFront, moveToBack and the resize
\* gesture run only for an image that is selected in the state they run
\* in, and in every state at most one image is selected, so at most one
\* image can be moved or resized.
C26_ControlsOnlyForSelected ==
    [][/\ last'.op \in SelectedImageHandlers => last'.id \in SelectedIds(images)
       /\ Cardinality(SelectedIds(images')) <= 1]_vars

\* the selected one of two images was moved to the back
C26_Witness ==
    /\ last.op = "moveToBack"
    /\ last.sel = {last.id}
    /\ Len(images) = 2
    /\ \E i \in DOMAIN images : images[i].id = last.id /\ images[i].zIndex < 0

\* C27: a drop event, whatever the number of files dropped, starts the
\* read of its first file only and changes nothing else, and each read in
\* flight ends in at most one appended image, so a drop appends at most
\* one image.
C27_DropTakesFirstFileOnly ==
    [][/\ last'.op = "onDrop" =>
             /\ inflight' = inflight \cup
                   {[kind |-> "drop", stage |-> "read", data |-> last'.arg[1]]}
             /\ Cardinality(inflight') = Cardinality(inflight) + 1
             /\ UNCHANGED <<images, maxZIndex, minZIndex, nextId, panX, panY,
                            clipboard>>
       /\ last'.op \in {"readerOnload", "dropImgOnload"} =>
             /\ Cardinality({e \in inflight' : e.kind = "drop"})
                   <= Cardinality({e \in inflight : e.kind = "drop"})
             /\ Len(images') - Len(images)
                   = Cardinality(inflight) - Cardinality(inflight')]_vars

\* two files were dropped at once and the first one is being read
C27_Witness ==
    /\ last.op = "onDrop"
    /\ Len(last.arg) = 2
    /\ last.arg[1] # last.arg[2]
    /\ [kind |-> "drop", stage |-> "read", data |-> last.arg[1]] \in inflight
    /\ [kind |-> "drop", stage |-> "read", data |-> last.arg[2]] \notin inflight
    /\ Cardinality(inflight) = 1

====
